---- MODULE Spec2Model ----
(***************************************************************************)
(* A model of examples/tokens.py: the execution of the module's top-level  *)
(* statements, and the behaviour of the functions and methods it defines.  *)
(***************************************************************************)
EXTENDS Integers, Sequences, FiniteSets, TLC

VARIABLES
    \* ---- the interpreter running the module's top-level statements
    dunder_name,    \* __name__: "__main__" when run as a script, "tokens" when imported
    mpc,            \* index in Program of the next top-level statement
    status,         \* "running" | "raised" | "finished"
    raised,         \* the exception that ended the module's execution, or "none"
    bound,          \* the module globals bound so far
    called,         \* the callables of the file invoked so far
    entered,        \* the context managers of the file a with-statement entered so far
    assignment,     \* the module global `assignment` (lines 91-103)
    out,            \* what was printed (stdout), oldest first
    \* ---- the module's globals and instances, as calls of its functions see them
    global_var,     \* the module global global_var (line 521)
    base,           \* an instance of BaseClass, DerivedClass or MultipleInheritance
    other,          \* an instance of GenericClass, IterableClass or CustomException
    call,           \* the function or method called last
    ret,            \* what that call returned
    \* ---- one call of match_example (lines 327-340)
    match_value,    \* its argument `value`
    result,         \* "pending", or how the call ended
    \* ---- one call of exception_examples (lines 343-360), or one with-block
    \*      that uses custom_context_manager() (lines 371-387)
    fpc,            \* the position in the running function
    pending,        \* the exception in flight, if any
    outcome,        \* "running", or how the call or the with-block ended
    risky_operation,\* what looking up and calling risky_operation() does
    caller,         \* who runs the with-block
    file_exists,    \* whether open("file.txt", "r") finds the file
    body,           \* what the body of the with-block does
    as_value        \* the value the with-statement binds (`as value`)

modVars == <<dunder_name, mpc, status, raised, bound, called, entered, assignment>>

callVars == <<global_var, base, other, call, ret>>

matchVars == <<match_value, result>>

runVars == <<fpc, pending, outcome>>

excVars == <<risky_operation>>

ctxVars == <<caller, file_exists, body, as_value>>

vars == <<modVars, out, callVars, matchVars, runVars, excVars, ctxVars>>

\* ---- bounds of the model
MaxVal == 1     \* int arguments range over -MaxVal..MaxVal

MaxLen == 1     \* list arguments have at most MaxLen elements

MaxOut == 2     \* a call that prints is taken while stdout holds at most MaxOut lines

MaxInt == 11    \* match_example is given ints -1..MaxInt and floats up to MaxInt + 0.5

MaxSeq == 3     \* match_example is given lists and tuples of at most MaxSeq elements

MaxBody == 3    \* the body of a with-block prints at most MaxBody lines

(***************************************************************************)
(* Python values, as far as the file computes with them.  A float is kept  *)
(* exactly as a number of halves: [t |-> "float", n |-> 3] is 1.5.         *)
(***************************************************************************)
PyInt(k) == [t |-> "int", n |-> k]

PyFloat(halves) == [t |-> "float", n |-> halves]

NoValue == [t |-> "unbound", n |-> 0]

TypeErrorResult == [t |-> "TypeError", n |-> 0]

RECURSIVE IntPow(_, _)
IntPow(b, e) == IF e = 0 THEN 1 ELSE b * IntPow(b, e - 1)

\* The bitwise operators on non-negative ints, bit by bit.
RECURSIVE BitOp(_, _, _)
BitOp(which, a, b) ==
    IF a = 0 /\ b = 0
    THEN 0
    ELSE LET x == a % 2
             y == b % 2
             bit == CASE which = "and" -> IF x = 1 /\ y = 1 THEN 1 ELSE 0
                      [] which = "or"  -> IF x = 1 \/ y = 1 THEN 1 ELSE 0
                      [] which = "xor" -> IF x # y THEN 1 ELSE 0
         IN  bit + 2 * BitOp(which, a \div 2, b \div 2)

\* An augmented assignment `assignment <op>= k` with an int literal k.
\* True division always yields a float; the bitwise operators accept ints only.
AugAssign(op, v, k) ==
    IF v.t = "int"
    THEN CASE op = "+="  -> PyInt(v.n + k)
           [] op = "-="  -> PyInt(v.n - k)
           [] op = "*="  -> PyInt(v.n * k)
           [] op = "/="  -> PyFloat((2 * v.n) \div k)
           [] op = "//=" -> PyInt(v.n \div k)
           [] op = "%="  -> PyInt(v.n % k)
           [] op = "**=" -> PyInt(IntPow(v.n, k))
           [] op = "&="  -> PyInt(BitOp("and", v.n, k))
           [] op = "|="  -> PyInt(BitOp("or", v.n, k))
           [] op = "^="  -> PyInt(BitOp("xor", v.n, k))
           [] op = "<<=" -> PyInt(v.n * IntPow(2, k))
           [] op = ">>=" -> PyInt(v.n \div IntPow(2, k))
    ELSE CASE op = "+="  -> PyFloat(v.n + 2 * k)
           [] op = "-="  -> PyFloat(v.n - 2 * k)
           [] op = "*="  -> PyFloat(v.n * k)
           [] op = "/="  -> PyFloat(v.n \div k)
           [] op = "//=" -> PyFloat(2 * (v.n \div (2 * k)))
           [] op = "%="  -> PyFloat(v.n % (2 * k))
           [] op = "**=" -> PyFloat((2 * IntPow(v.n, k)) \div IntPow(2, k))
           [] OTHER      -> TypeErrorResult

(***************************************************************************)
(* The module's top-level statements, in file order.  A statement binds    *)
(* names and may invoke callables of the file (`calls`); the statements of *)
(* the `if __name__ == "__main__":` block carry main = TRUE.               *)
(***************************************************************************)
Stmt(l, k, b, c) ==
    [line |-> l, kind |-> k, binds |-> b, calls |-> c, op |-> "", arg |-> 0,
     main |-> FALSE]

Simple(l, b) == Stmt(l, "simple", b, {})

Def(l, f) == Stmt(l, "def", {f}, {})

Aug(l, o, a) == [Stmt(l, "augassign", {"assignment"}, {}) EXCEPT !.op = o, !.arg = a]

InMain(s) == [s EXCEPT !.main = TRUE]

Literals ==
    << Simple(3, {"__doc__"}),
       Simple(9, {"os"}), Simple(10, {"sys"}), Simple(11, {"json"}),
       Simple(12, {"asyncio"}),
       Simple(13, {"Dict", "List", "Optional", "Union", "Tuple", "Any", "TypeVar", "Generic"}),
       Simple(14, {"defaultdict", "namedtuple"}), Simple(15, {"dataclass", "field"}),
       Simple(16, {"Enum", "IntEnum", "auto"}), Simple(17, {"ABC", "abstractmethod"}),
       Simple(18, {"contextmanager"}), Simple(19, {"re"}),
       Simple(23, {}),
       Simple(28, {"CONSTANT_VALUE"}), Simple(29, {"_PRIVATE_CONSTANT"}),
       Simple(30, {"__DUNDER_CONSTANT"}),
       Simple(33, {"integer"}), Simple(34, {"float_num"}), Simple(35, {"scientific"}),
       Simple(36, {"negative"}), Simple(37, {"binary"}), Simple(38, {"octal"}),
       Simple(39, {"hexadecimal"}), Simple(40, {"complex_num"}),
       Simple(43, {"single_quoted"}), Simple(44, {"double_quoted"}),
       Simple(45, {"triple_single"}), Simple(47, {"triple_double"}),
       Simple(51, {"name"}), Simple(52, {"formatted_string"}),
       Simple(53, {"old_format"}), Simple(54, {"old_style"}),
       Simple(57, {"raw_string"}), Simple(58, {"unicode_string"}),
       Simple(61, {"byte_string"}), Simple(62, {"byte_array"}),
       Simple(65, {"list_example"}), Simple(66, {"tuple_example"}),
       Simple(67, {"set_example"}), Simple(68, {"dict_example"}),
       Simple(76, {"list_comp"}), Simple(77, {"dict_comp"}),
       Simple(78, {"set_comp"}), Simple(79, {"generator_exp"}),
       Simple(82, {"true_val"}), Simple(83, {"false_val"}), Simple(84, {"none_val"}),
       Simple(87, {"arithmetic"}), Simple(88, {"comparison"}),
       Simple(89, {"logical"}), Simple(90, {"bitwise"}) >>

Operators ==
    << [Stmt(91, "assign", {"assignment"}, {}) EXCEPT !.arg = 1],
       Aug(92, "+=", 2), Aug(93, "-=", 1), Aug(94, "*=", 2), Aug(95, "/=", 2),
       Aug(96, "//=", 2), Aug(97, "%=", 2), Aug(98, "**=", 2), Aug(99, "&=", 1),
       Aug(100, "|=", 1), Aug(101, "^=", 1), Aug(102, "<<=", 1), Aug(103, ">>=", 1),
       Simple(106, {"membership"}), Simple(107, {"identity"}) >>

Definitions ==
    << Def(110, "BaseClass"), Def(161, "DerivedClass"), Def(174, "Mixin"),
       Def(180, "MultipleInheritance"), Def(185, "AbstractClass"),
       Def(198, "DataClassExample"),
       Simple(208, {"Point"}), Simple(209, {"point"}),
       Def(212, "Color"), Def(218, "Status"),
       Simple(225, {"T"}), Simple(226, {"U"}),
       Def(228, "GenericClass"),
       Def(238, "simple_function"), Def(242, "function_with_defaults"),
       Def(246, "function_with_args"), Def(250, "function_with_annotations"),
       Def(263, "lambda_simple"), Def(264, "lambda_complex"),
       Def(267, "decorator_function"), Def(274, "parametrized_decorator"),
       \* @decorator_function @parametrized_decorator("test") run at definition time
       Stmt(283, "def", {"decorated_function"},
            {"parametrized_decorator", "decorator", "decorator_function"}),
       Def(290, "control_flow_examples"), Def(343, "exception_examples"),
       Def(363, "CustomException"), Def(371, "custom_context_manager"),
       Def(380, "context_manager_examples"),
       Def(390, "async_function"), Def(395, "async_generator"),
       Def(401, "async_context_manager"),
       Simple(408, {"pattern"}), Simple(409, {"match"}), Simple(410, {"version"}),
       Def(414, "file_operations"), Def(435, "builtin_examples"),
       Def(462, "IterableClass"), Def(478, "MetaClass"),
       \* creating a class whose metaclass is MetaClass calls MetaClass.__new__
       Stmt(485, "def", {"ClassWithMeta"}, {"MetaClass.__new__"}) >>

\* The block, had it ended with asyncio.run(async_context_manager()).
MainBlockRunningAsync ==
    << Stmt(490, "ifmain", {}, {}),
       InMain(Stmt(492, "print", {}, {})),
       InMain(Simple(495, {"a", "b", "rest"})),
       InMain(Simple(496, {"first", "middle", "last"})),
       InMain(Simple(499, {"dict1"})), InMain(Simple(500, {"dict2"})),
       InMain(Simple(503, {"args"})), InMain(Simple(504, {"kwargs"})),
       InMain(Stmt(505, "call", {"result"}, {"function_with_args"})),
       InMain(Stmt(508, "print", {"n"}, {})),
       InMain(Simple(512, {"value"})),
       InMain(Stmt(513, "print", {}, {})), InMain(Stmt(514, "print", {}, {})),
       InMain(Simple(517, {})), InMain(Simple(518, {})),
       InMain(Stmt(518, "call", {}, {"async_context_manager"})) >>

MainBlock ==
    << Stmt(490, "ifmain", {}, {}),
       InMain(Stmt(492, "print", {}, {})),
       InMain(Simple(495, {"a", "b", "rest"})),
       InMain(Simple(496, {"first", "middle", "last"})),
       InMain(Simple(499, {"dict1"})), InMain(Simple(500, {"dict2"})),
       InMain(Simple(503, {"args"})), InMain(Simple(504, {"kwargs"})),
       InMain(Stmt(505, "call", {"result"}, {"function_with_args"})),
       InMain(Stmt(508, "print", {"n"}, {})),
       InMain(Simple(512, {"value"})),
       InMain(Stmt(513, "print", {}, {})), InMain(Stmt(514, "print", {}, {})),
       InMain(Simple(517, {})), InMain(Simple(518, {})) >>

\* The statements after the block, had they ended with context_manager_examples().
EpilogueUsingContext ==
    << Simple(521, {"global_var"}), Def(523, "outer_function"),
       Stmt(537, "print", {}, {}), Stmt(538, "print", {}, {}), Stmt(539, "print", {}, {}),
       Def(542, "placeholder_function"), Def(547, "annotated_function"),
       Stmt(553, "call", {}, {"context_manager_examples"}) >>

Epilogue ==
    << Simple(521, {"global_var"}), Def(523, "outer_function"),
       Stmt(537, "print", {}, {}), Stmt(538, "print", {}, {}), Stmt(539, "print", {}, {}),
       Def(542, "placeholder_function"), Def(547, "annotated_function") >>

Program == Literals \o Operators \o Definitions \o MainBlock \o Epilogue

\* The coroutine functions of the file (lines 389-405).
AsyncFunctions == {"async_function", "async_generator", "async_context_manager"}

\* The module global a call looks up: a method through its class, the closure
\* `decorator` through the call of parametrized_decorator that returns it.
Owner(c) ==
    CASE c = "decorator"             -> "parametrized_decorator"
      [] c = "MetaClass.__new__"     -> "MetaClass"
      [] c = "BaseClass.__init__"    -> "BaseClass"
      [] c = "BaseClass.instance_method" -> "BaseClass"
      [] c = "inner_function"        -> "outer_function"
      [] OTHER                       -> c

\* The callables of the file that the body of f invokes directly.
Callees(f) ==
    CASE f = "DerivedClass"                 -> {"BaseClass.__init__"}
      [] f = "DerivedClass.instance_method" -> {"BaseClass.instance_method"}
      [] f = "exception_examples"           -> {"risky_operation"}
      [] f = "context_manager_examples"     -> {"custom_context_manager"}
      [] f = "async_context_manager"        -> {"some_async_context", "async_function"}
      [] f = "outer_function"               -> {"inner_function"}
      [] OTHER                              -> {}

\* The context managers of the file that the body of f enters with a with-statement.
Enters(f) ==
    IF f = "context_manager_examples" THEN {"custom_context_manager"} ELSE {}

\* Everything invoked when the callables in S are called while the globals B are bound.
RECURSIVE Reach(_, _)
Reach(S, B) ==
    LET T == S \cup {g \in UNION {Callees(f) : f \in S} : Owner(g) \in B}
    IN  IF T = S THEN S ELSE Reach(T, B)

\* What a print statement at top level writes.
PrintedText(l, nm) ==
    CASE l = 492 -> "Running as main module"
      [] l = 508 -> "Length is 5"
      [] l = 513 -> "Value: 42, Hex: 2a, Binary: 101010"
      [] l = 514 -> "Calculation: 2 + 3 = 5"
      [] l = 537 -> nm
      [] l = 538 -> "tokens.py"
      [] OTHER   -> "Comprehensive Python syntax for theme color testing."

\* The statement after statement i: a false `if __name__ == "__main__":` skips its block.
RECURSIVE SkipMain(_)
SkipMain(i) ==
    IF i <= Len(Program) /\ Program[i].main THEN SkipMain(i + 1) ELSE i

NextStatement(i, nm) ==
    IF Program[i].kind = "ifmain" /\ nm # "__main__" THEN SkipMain(i + 1) ELSE i + 1

\* The variables a specification does not use keep these values.
IdleCalls ==
    /\ global_var = "unbound"
    /\ base = [cls |-> "none"]
    /\ other = [cls |-> "none"]
    /\ call = ""
    /\ ret = [t |-> "none"]

IdleModule ==
    /\ dunder_name = "tokens" /\ mpc = 0 /\ status = "finished" /\ raised = "none"
    /\ bound = {} /\ called = {} /\ entered = {} /\ assignment = NoValue

IdleMatch == match_value = [t |-> "none"] /\ result = [kind |-> "pending"]

NoException == [cls |-> "none"]

IdleRun ==
    /\ fpc = "idle" /\ pending = NoException /\ outcome = [kind |-> "running"]
    /\ risky_operation = [kind |-> "unbound"]
    /\ caller = "none" /\ file_exists = FALSE
    /\ body = [lines |-> 0, ends |-> "completes"] /\ as_value = "unbound"

InitModule ==
    /\ IdleCalls /\ IdleMatch /\ IdleRun
    /\ dunder_name \in {"__main__", "tokens"}
    /\ mpc = 1
    /\ status = "running"
    /\ raised = "none"
    /\ bound = {"__name__", "__file__"}
    /\ called = {}
    /\ entered = {}
    /\ assignment = NoValue
    /\ out = << >>

\* The interpreter executes the next top-level statement; an exception no
\* top-level statement handles ends the execution there.
ExecStatement ==
    /\ status = "running"
    /\ mpc <= Len(Program)
    /\ LET s == Program[mpc]
           missing == {c \in s.calls : Owner(c) \notin bound}
           newval == CASE s.kind = "assign"    -> PyInt(s.arg)
                       [] s.kind = "augassign" -> AugAssign(s.op, assignment, s.arg)
                       [] OTHER                -> assignment
           err == IF missing # {} THEN "NameError"
                  ELSE IF newval.t = "TypeError" THEN "TypeError" ELSE "none"
           invoked == Reach(s.calls, bound)
           next == NextStatement(mpc, dunder_name)
       IN  IF err # "none"
           THEN /\ status' = "raised"
                /\ raised' = err
                /\ UNCHANGED <<dunder_name, mpc, bound, called, entered, assignment, out>>
                /\ UNCHANGED <<callVars, matchVars, runVars, excVars, ctxVars>>
           ELSE /\ bound' = bound \cup s.binds
                /\ called' = called \cup invoked
                /\ entered' = entered \cup UNION {Enters(f) : f \in invoked}
                /\ assignment' = newval
                /\ out' = IF s.kind = "print"
                          THEN Append(out, PrintedText(s.line, dunder_name))
                          ELSE out
                /\ mpc' = next
                /\ status' = IF next > Len(Program) THEN "finished" ELSE "running"
                /\ UNCHANGED <<dunder_name, raised>>
                /\ UNCHANGED <<callVars, matchVars, runVars, excVars, ctxVars>>

NextModule == ExecStatement

SpecModule == InitModule /\ [][NextModule]_vars

\* Every name some top-level statement binds.
AllBound == UNION {Program[i].binds : i \in 1 .. Len(Program)}

\* Everything a top-level statement of the file would invoke, were it reached.
TopLevelInvokes == UNION {Reach(Program[i].calls, AllBound) : i \in 1 .. Len(Program)}

\* C1: in every execution of the module's top-level statements, imported or run
\* as __main__, none of async_function, async_generator, async_context_manager
\* has been invoked, and no top-level statement invokes one of them.
C1_NoAsyncInvoked ==
    /\ called \cap AsyncFunctions = {}
    /\ TopLevelInvokes \cap AsyncFunctions = {}

\* C1 witness: the execution as __main__ has ended (at line 99, `assignment &= 1`
\* on a float).
C1_Witness ==
    /\ dunder_name = "__main__"
    /\ status = "raised" /\ raised = "TypeError" /\ Program[mpc].line = 99
    /\ assignment = PyFloat(2)

\* C2: in every execution of the module's top-level statements, exception_examples
\* has not been called, no with-statement has entered custom_context_manager, and
\* CustomException has not been instantiated; no top-level statement does either.
C2_NoHandlerExercised ==
    /\ "exception_examples" \notin called \cup TopLevelInvokes
    /\ "CustomException" \notin called \cup TopLevelInvokes
    /\ "custom_context_manager" \notin entered
    /\ \A f \in TopLevelInvokes : "custom_context_manager" \notin Enters(f)

\* C2 witness: the execution on import has ended, with an exception no handler
\* of the file caught.
C2_Witness ==
    /\ dunder_name = "tokens"
    /\ status = "raised" /\ raised = "TypeError"
    /\ called = {} /\ entered = {}

(***************************************************************************)
(* Calls of the functions and methods of the file, made in any order by a  *)
(* caller that holds one instance of each class.                           *)
(***************************************************************************)
Ints == -MaxVal .. MaxVal

Strs == {"", "World"}

Items == {0, 1}

Lists == UNION {[1 .. n -> Items] : n \in 0 .. MaxLen}

PyNone == [t |-> "none"]

PyBool(b) == [t |-> "bool", b |-> b]

PyStr(str) == [t |-> "str", s |-> str]

PyTuple(items) == [t |-> "tuple", items |-> items]

PyList(items) == [t |-> "list", items |-> items]

PyDict(d) == [t |-> "dict", d |-> d]

NoObject == [cls |-> "none"]

BaseFamily == {"BaseClass", "DerivedClass", "MultipleInheritance"}

\* The values a later call can observe: module globals and instance attributes.
Observables == <<global_var, base, other>>

InitCalls ==
    /\ IdleModule /\ IdleMatch /\ IdleRun
    /\ out = << >>
    /\ global_var = "global"
    /\ base = NoObject
    /\ other = NoObject
    /\ call = ""
    /\ ret = PyNone

Returns(f, v) ==
    call' = f /\ ret' = v /\ UNCHANGED <<modVars, matchVars, runVars, excVars, ctxVars>>

\* BaseClass.__init__, also run for a MultipleInheritance instance
BaseClass__init__ ==
    \E c \in {"BaseClass", "MultipleInheritance"}, value \in Ints :
        /\ base' = [cls |-> c, instance_variable |-> value,
                    protected_instance |-> "protected", private_instance |-> "private"]
        /\ Returns("BaseClass.__init__", PyNone)
        /\ UNCHANGED <<global_var, other, out>>

\* DerivedClass.__init__: super().__init__(value), then self.extra = extra
DerivedClass__init__ ==
    \E value \in Ints, extra \in Strs :
        /\ base' = [cls |-> "DerivedClass", instance_variable |-> value,
                    protected_instance |-> "protected", private_instance |-> "private",
                    extra |-> extra]
        /\ Returns("DerivedClass.__init__", PyNone)
        /\ UNCHANGED <<global_var, other, out>>

BaseInstanceMethod(self) == "Instance method: " \o ToString(self.instance_variable)

\* instance_method, as BaseClass defines it and as DerivedClass overrides it
instance_method ==
    /\ base.cls \in BaseFamily
    /\ Returns("instance_method",
               IF base.cls = "DerivedClass"
               THEN PyStr(BaseInstanceMethod(base) \o " + " \o base.extra)
               ELSE PyStr(BaseInstanceMethod(base)))
    /\ UNCHANGED <<Observables, out>>

class_method ==
    /\ Returns("class_method", PyStr("Class method: " \o "shared"))
    /\ UNCHANGED <<Observables, out>>

static_method ==
    \E param \in Strs :
        /\ Returns("static_method", PyStr("Static method: " \o param))
        /\ UNCHANGED <<Observables, out>>

computed_property_get ==
    /\ base.cls \in BaseFamily
    /\ Returns("computed_property", PyInt(base.instance_variable * 2))
    /\ UNCHANGED <<Observables, out>>

computed_property_set ==
    \E value \in Ints :
        /\ base.cls \in BaseFamily
        /\ base' = [base EXCEPT !.instance_variable = value \div 2]
        /\ Returns("computed_property.setter", PyNone)
        /\ UNCHANGED <<global_var, other, out>>

BaseClass__str__ ==
    /\ base.cls \in BaseFamily
    /\ Returns("__str__", PyStr("BaseClass(" \o ToString(base.instance_variable) \o ")"))
    /\ UNCHANGED <<Observables, out>>

BaseClass__repr__ ==
    /\ base.cls \in BaseFamily
    /\ Returns("__repr__",
               PyStr("BaseClass(value=" \o ToString(base.instance_variable) \o ")"))
    /\ UNCHANGED <<Observables, out>>

BaseClass__len__ ==
    /\ base.cls \in BaseFamily
    /\ Returns("__len__", PyInt(base.instance_variable))
    /\ UNCHANGED <<Observables, out>>

BaseClass__getitem__Writing ==
    \E key \in Ints :
        /\ base.cls \in BaseFamily
        /\ base' = [base EXCEPT !.instance_variable = base.instance_variable + key]
        /\ Returns("__getitem__", PyInt(base.instance_variable + key))
        /\ UNCHANGED <<global_var, other, out>>

BaseClass__getitem__ ==
    \E key \in Ints :
        /\ base.cls \in BaseFamily
        /\ Returns("__getitem__", PyInt(base.instance_variable + key))
        /\ UNCHANGED <<Observables, out>>

BaseClass__setitem__ ==
    \E key \in Ints, value \in Ints :
        /\ base.cls \in BaseFamily
        /\ base' = [base EXCEPT !.instance_variable = value - key]
        /\ Returns("__setitem__", PyNone)
        /\ UNCHANGED <<global_var, other, out>>

mixin_method ==
    /\ base.cls = "MultipleInheritance"
    /\ Returns("mixin_method", PyStr("Mixin functionality"))
    /\ UNCHANGED <<Observables, out>>

\* AbstractClass.concrete_method, called on an instance of a concrete subclass
concrete_method ==
    /\ Returns("concrete_method", PyStr("Concrete implementation"))
    /\ UNCHANGED <<Observables, out>>

GenericClass__init__ ==
    \E value \in Ints :
        /\ other' = [cls |-> "GenericClass", value |-> value]
        /\ Returns("GenericClass.__init__", PyNone)
        /\ UNCHANGED <<global_var, base, out>>

get_value ==
    /\ other.cls = "GenericClass"
    /\ Returns("get_value", PyInt(other.value))
    /\ UNCHANGED <<Observables, out>>

IterableClass__init__ ==
    \E data \in Lists :
        /\ other' = [cls |-> "IterableClass", data |-> data]
        /\ Returns("IterableClass.__init__", PyNone)
        /\ UNCHANGED <<global_var, base, out>>

IterableClass__iter__ ==
    /\ other.cls = "IterableClass"
    /\ Returns("__iter__", [t |-> "list_iterator", items |-> other.data])
    /\ UNCHANGED <<Observables, out>>

IterableClass__len__ ==
    /\ other.cls = "IterableClass"
    /\ Returns("IterableClass.__len__", PyInt(Len(other.data)))
    /\ UNCHANGED <<Observables, out>>

IterableClass__contains__ ==
    \E item \in Items :
        /\ other.cls = "IterableClass"
        /\ Returns("__contains__",
                   PyBool(\E i \in 1 .. Len(other.data) : other.data[i] = item))
        /\ UNCHANGED <<Observables, out>>

CustomException__init__ ==
    \E message \in {"World"}, code \in {0, 1} :
        /\ other' = [cls |-> "CustomException", args |-> <<message>>, code |-> code]
        /\ Returns("CustomException.__init__", PyNone)
        /\ UNCHANGED <<global_var, base, out>>

simple_function ==
    \E param \in Strs :
        /\ Returns("simple_function", PyStr("Hello, " \o param \o "!"))
        /\ UNCHANGED <<Observables, out>>

function_with_defaults ==
    \E a \in Ints, b \in {10, 0}, c \in {"default"} :
        /\ Returns("function_with_defaults", PyTuple(<<PyInt(a + b), PyStr(c)>>))
        /\ UNCHANGED <<Observables, out>>

function_with_args ==
    \E args \in {<< >>, <<1, 2, 3>>}, kwargs \in {<< >>, <<"keyword", "value">>} :
        /\ Returns("function_with_args",
                   PyDict([args |-> PyTuple(args), kwargs |-> PyDict(kwargs)]))
        /\ UNCHANGED <<Observables, out>>

function_with_annotations ==
    \E required \in Strs, keyword_only \in BOOLEAN :
        /\ Returns("function_with_annotations",
                   IF keyword_only THEN PyInt(Len(required)) ELSE PyStr(required))
        /\ UNCHANGED <<Observables, out>>

lambda_simple ==
    \E x \in Ints :
        /\ Returns("lambda_simple", PyInt(x * 2))
        /\ UNCHANGED <<Observables, out>>

lambda_complex ==
    \E x \in Ints, y \in {10} :
        /\ Returns("lambda_complex", PyInt(IF x > 0 THEN x + y ELSE y))
        /\ UNCHANGED <<Observables, out>>

\* decorated_function: the wrapper of decorator_function, around the wrapper of
\* parametrized_decorator("test"), around the function itself
decorated_function ==
    \E x \in Ints :
        /\ Len(out) + 2 <= MaxOut
        /\ out' = out \o <<"Calling wrapper", "Decorator param: test">>
        /\ Returns("decorated_function", PyInt(x * 2))
        /\ UNCHANGED Observables

\* outer_function: inner_function assigns the enclosing outer_var and the module
\* global global_var; outer_function returns outer_var
outer_function ==
    /\ global_var' = "modified global"
    /\ Returns("outer_function", PyStr("modified outer"))
    /\ UNCHANGED <<base, other, out>>

placeholder_function ==
    /\ Returns("placeholder_function", PyNone)
    /\ UNCHANGED <<Observables, out>>

annotated_function ==
    \E param1 \in {<< >>, <<0>>}, param3 \in {"None", "World"} :
        /\ Returns("annotated_function",
                   PyDict([param1 |-> PyList(param1), param2 |-> PyNone,
                           param3 |-> IF param3 = "None" THEN PyNone ELSE PyStr(param3)]))
        /\ UNCHANGED <<Observables, out>>

NextCalls ==
    \/ outer_function
    \/ BaseClass__init__ \/ DerivedClass__init__
    \/ instance_method \/ class_method \/ static_method
    \/ computed_property_get \/ computed_property_set
    \/ BaseClass__str__ \/ BaseClass__repr__ \/ BaseClass__len__
    \/ BaseClass__getitem__ \/ BaseClass__setitem__
    \/ mixin_method \/ concrete_method
    \/ GenericClass__init__ \/ get_value
    \/ IterableClass__init__ \/ IterableClass__iter__ \/ IterableClass__len__
    \/ IterableClass__contains__
    \/ CustomException__init__
    \/ simple_function \/ function_with_defaults \/ function_with_args
    \/ function_with_annotations \/ lambda_simple \/ lambda_complex
    \/ decorated_function \/ placeholder_function \/ annotated_function

SpecCalls == InitCalls /\ [][NextCalls]_vars

\* The functions and methods that assign a module global or an instance attribute.
Mutators ==
    {"outer_function", "computed_property.setter", "__setitem__",
     "BaseClass.__init__", "DerivedClass.__init__", "GenericClass.__init__",
     "IterableClass.__init__", "CustomException.__init__"}

RichComparisons == {"unsupported", "false", "true"}

MatchScalars ==
    {PyInt(n) : n \in -1 .. MaxInt} \cup {PyBool(b) : b \in BOOLEAN}
        \cup {PyFloat(h) : h \in 0 .. 2 * MaxInt + 1}
        \cup {PyStr("abc"), PyNone}

SeqItems == {PyInt(1), PyInt(2), PyInt(3), PyBool(TRUE), PyStr("x")}

MatchSequences ==
    {[t |-> c, items |-> i, gt |-> g] :
        c \in {"list", "tuple"},
        i \in UNION {[1 .. n -> SeqItems] : n \in 0 .. MaxSeq},
        g \in RichComparisons}

Absent == [t |-> "absent"]

MatchMappings ==
    {[t |-> "dict", name |-> n, age |-> a, gt |-> g] :
        n \in {Absent, PyStr("bob"), PyInt(3)},
        a \in {Absent, PyInt(17), PyInt(18), PyInt(30), PyBool(TRUE), PyStr("old"),
               PyFloat(36)},
        g \in RichComparisons}

MatchValues == MatchScalars \cup MatchSequences \cup MatchMappings

IsNumber(v) == v.t \in {"int", "bool", "float"}

\* A number in halves, so that ints, bools and floats compare by value.
Halves(v) ==
    CASE v.t = "int"   -> 2 * v.n
      [] v.t = "bool"  -> IF v.b THEN 2 ELSE 0
      [] v.t = "float" -> v.n

\* v == k for an int literal k
PyEq(v, k) == IsNumber(v) /\ Halves(v) = 2 * k

\* v > k for an int literal k: "true", "false", or "TypeError"
PyGt(v, k) ==
    CASE IsNumber(v) -> IF Halves(v) > 2 * k THEN "true" ELSE "false"
      [] v.t \in {"list", "tuple", "dict"} ->
            IF v.gt = "unsupported" THEN "TypeError" ELSE v.gt
      [] OTHER -> "TypeError"

\* repr() of a scalar, and of a list of scalars, as an f-string formats it
Repr(v) ==
    CASE v.t = "int"  -> ToString(v.n)
      [] v.t = "bool" -> IF v.b THEN "True" ELSE "False"
      [] v.t = "str"  -> "'" \o v.s \o "'"

RECURSIVE ReprItems(_)
ReprItems(items) ==
    IF Len(items) = 0 THEN ""
    ELSE IF Len(items) = 1 THEN Repr(items[1])
    ELSE Repr(items[1]) \o ", " \o ReprItems(Tail(items))

ReprList(items) == "[" \o ReprItems(items) \o "]"

Return(str) == [kind |-> "return", v |-> PyStr(str)]

Raise(e) == [kind |-> "raise", exc |-> e]

\* case [1, 2, *rest]: a list or tuple of at least two elements, the first == 1,
\* the second == 2
SequencePattern(v) ==
    /\ v.t \in {"list", "tuple"}
    /\ Len(v.items) >= 2
    /\ PyEq(v.items[1], 1)
    /\ PyEq(v.items[2], 2)

\* case {"name": str(name), "age": int(age)}: a mapping with both keys, whose
\* "name" is a str and whose "age" is an int (a bool is an int)
MappingPattern(v) ==
    /\ v.t = "dict"
    /\ v.name.t = "str"
    /\ v.age.t \in {"int", "bool"}

\* The cases are tried in order; the guard of `case x if x > 10` is evaluated for
\* every value that is not == 1, 2 or 3, whatever its type.
MatchExample(v) ==
    IF PyEq(v, 1) THEN Return("one")
    ELSE IF PyEq(v, 2) \/ PyEq(v, 3) THEN Return("two or three")
    ELSE LET guard == PyGt(v, 10)
         IN  IF guard = "TypeError" THEN Raise("TypeError")
             ELSE IF guard = "true" THEN Return("greater than ten")
             ELSE IF SequencePattern(v)
                  THEN Return("list starting with 1, 2: "
                              \o ReprList(SubSeq(v.items, 3, Len(v.items))))
             ELSE IF MappingPattern(v) /\ Halves(v.age) >= 2 * 18
                  THEN Return("adult named " \o v.name.s)
             ELSE Return("default case")

InitMatch ==
    /\ IdleModule /\ IdleCalls /\ IdleRun
    /\ out = << >>
    /\ match_value \in MatchValues
    /\ result = [kind |-> "pending"]

match_example ==
    /\ result.kind = "pending"
    /\ result' = MatchExample(match_value)
    /\ UNCHANGED <<match_value, modVars, callVars, out, runVars, excVars, ctxVars>>

NextMatch == match_example

SpecMatch == InitMatch /\ [][NextMatch]_vars

\* The argument is a builtin list whose first two elements are 1 and 2.
ListStartingWith12(v) ==
    /\ v.t = "list" /\ v.gt = "unsupported"
    /\ Len(v.items) >= 2 /\ v.items[1] = PyInt(1) /\ v.items[2] = PyInt(2)

\* The argument is a builtin dict with a str "name" and an int "age" >= 18.
AdultMapping(v) ==
    /\ v.t = "dict" /\ v.gt = "unsupported"
    /\ v.name.t = "str" /\ v.age.t = "int" /\ v.age.n >= 18

\* None of the first five cases describes the argument.
NoneOfFirstFive(v) ==
    /\ ~PyEq(v, 1) /\ ~PyEq(v, 2) /\ ~PyEq(v, 3)
    /\ PyGt(v, 10) # "true"
    /\ ~SequencePattern(v)
    /\ ~(MappingPattern(v) /\ Halves(v.age) >= 2 * 18)

\* C4: match_example returns the result of the case that describes its argument:
\* the rest of a list starting with 1, 2; the name of an adult mapping; "default
\* case" for a value none of the first five cases describes; never an exception.
C4_MatchDescribesArgument ==
    result.kind # "pending" =>
        /\ ListStartingWith12(match_value) =>
              result = Return("list starting with 1, 2: "
                              \o ReprList(SubSeq(match_value.items, 3, Len(match_value.items))))
        /\ AdultMapping(match_value) => result = Return("adult named " \o match_value.name.s)
        /\ NoneOfFirstFive(match_value) => result = Return("default case")
        /\ result.kind = "return"

(***************************************************************************)
(* Exceptions: the builtin classes the file names or can meet, and its own *)
(* CustomException.                                                        *)
(***************************************************************************)
Exc(c, m) == [cls |-> c, msg |-> m]

\* The base class of an exception class.
BaseOf(c) ==
    CASE c = "UnicodeError"      -> "ValueError"
      [] c = "KeyError"          -> "LookupError"
      [] c = "FileNotFoundError" -> "OSError"
      [] c \in {"Exception", "KeyboardInterrupt", "GeneratorExit"} -> "BaseException"
      [] OTHER                   -> "Exception"

RECURSIVE IsSubclass(_, _)
IsSubclass(c, d) ==
    IF c = d THEN TRUE
    ELSE IF c = "BaseException" THEN FALSE
    ELSE IsSubclass(BaseOf(c), d)

\* str(e), as an f-string formats the exception: a KeyError shows the repr of its key.
StrOf(e) == IF e.cls = "KeyError" THEN "'" \o e.msg \o "'" ELSE e.msg

Ended(how) == [kind |-> "raise", exc |-> how]

Completed == [kind |-> "completed"]

(***************************************************************************)
(* exception_examples (lines 343-360), statement by statement.             *)
(***************************************************************************)
Messages == {"", "bad", "Custom error message"}

RaisedClasses ==
    {"ValueError", "UnicodeError", "TypeError", "AttributeError", "KeyError",
     "RuntimeError", "CustomException", "KeyboardInterrupt"}

\* The file never binds risky_operation; a caller may bind it to anything.
RiskyBehaviours ==
    {[kind |-> "unbound"], [kind |-> "returns"]}
        \cup {[kind |-> "raises", exc |-> Exc(c, m)] : c \in RaisedClasses, m \in Messages}

InitExc ==
    /\ IdleModule /\ IdleCalls /\ IdleMatch
    /\ out = << >>
    /\ fpc = "try" /\ pending = NoException /\ outcome = [kind |-> "running"]
    /\ risky_operation \in RiskyBehaviours
    /\ caller = "none" /\ file_exists = FALSE
    /\ body = [lines |-> 0, ends |-> "completes"] /\ as_value = "unbound"

ExcFrame == UNCHANGED <<modVars, callVars, matchVars, excVars, ctxVars>>

\* line 347: risky_operation()
TryRisky ==
    /\ fpc = "try"
    /\ pending' = CASE risky_operation.kind = "unbound" ->
                         Exc("NameError", "name 'risky_operation' is not defined")
                    [] risky_operation.kind = "raises" -> risky_operation.exc
                    [] OTHER -> NoException
    /\ fpc' = IF risky_operation.kind = "returns" THEN "else" ELSE "except"
    /\ UNCHANGED <<out, outcome>>
    /\ ExcFrame

\* The message the first except clause matching e prints, "" when none matches.
HandlerWithoutGeneral(e) ==
    CASE IsSubclass(e.cls, "ValueError") -> "ValueError: " \o StrOf(e)
      [] IsSubclass(e.cls, "TypeError") \/ IsSubclass(e.cls, "AttributeError") ->
            "Type or Attribute error: " \o StrOf(e)
      [] OTHER -> ""

Handler(e) ==
    CASE IsSubclass(e.cls, "ValueError") -> "ValueError: " \o StrOf(e)
      [] IsSubclass(e.cls, "TypeError") \/ IsSubclass(e.cls, "AttributeError") ->
            "Type or Attribute error: " \o StrOf(e)
      [] IsSubclass(e.cls, "Exception") -> "General exception: " \o StrOf(e)
      [] OTHER -> ""

\* lines 348-353: the except clauses, tried in order
ExceptClauses ==
    /\ fpc = "except"
    /\ IF Handler(pending) # ""
       THEN out' = Append(out, Handler(pending)) /\ pending' = NoException
       ELSE UNCHANGED <<out, pending>>
    /\ fpc' = "finally"
    /\ UNCHANGED outcome
    /\ ExcFrame

\* lines 354-355: the else clause
ElseClause ==
    /\ fpc = "else"
    /\ out' = Append(out, "No exception occurred")
    /\ fpc' = "finally"
    /\ UNCHANGED <<pending, outcome>>
    /\ ExcFrame

\* lines 356-357: the finally clause; an exception no clause caught goes on
FinallyClause ==
    /\ fpc = "finally"
    /\ out' = Append(out, "Cleanup code")
    /\ IF pending = NoException
       THEN fpc' = "raise" /\ UNCHANGED outcome
       ELSE fpc' = "done" /\ outcome' = Ended(pending)
    /\ UNCHANGED pending
    /\ ExcFrame

\* line 360: raise ValueError("Custom error message")
RaiseCustom ==
    /\ fpc = "raise"
    /\ fpc' = "done"
    /\ outcome' = Ended(Exc("ValueError", "Custom error message"))
    /\ UNCHANGED <<out, pending>>
    /\ ExcFrame

NextExc == TryRisky \/ ExceptClauses \/ ElseClause \/ FinallyClause \/ RaiseCustom

SpecExc == InitExc /\ [][NextExc]_vars

Printed(S) == {i \in 1 .. Len(out) : out[i] \in S}

\* The exceptions risky_operation() can end with in this model.
RiskyExceptions ==
    {Exc(c, m) : c \in RaisedClasses, m \in Messages}
        \cup {Exc("NameError", "name 'risky_operation' is not defined")}

\* The four messages of the try statement, for any exception e.
FourMessages ==
    {"No exception occurred"}
        \cup {p \o StrOf(e) :
                p \in {"ValueError: ", "Type or Attribute error: ", "General exception: "},
                e \in RiskyExceptions}

\* risky_operation() returns, raises an Exception, or cannot be resolved.
CoveredByC5 ==
    risky_operation.kind = "raises" => IsSubclass(risky_operation.exc.cls, "Exception")

\* C5: in every call of exception_examples, whatever risky_operation() does
\* (returns, raises an Exception, cannot be resolved), one of the four messages
\* is printed and no second one, "No exception occurred" only when it returned,
\* then "Cleanup code" once, and only then the call ends, by raising
\* ValueError("Custom error message"); no step before that is the last one.
C5_ExceptionExamples ==
    CoveredByC5 =>
        /\ Cardinality(Printed(FourMessages)) <= 1
        /\ Cardinality(Printed({"Cleanup code"})) <= 1
        /\ Printed({"No exception occurred"}) # {} => risky_operation.kind = "returns"
        /\ Printed({"Cleanup code"}) # {} =>
              Len(out) = 2 /\ out[1] \in FourMessages /\ out[2] = "Cleanup code"
        /\ outcome.kind # "running" =>
              /\ Printed({"Cleanup code"}) # {}
              /\ outcome = Ended(Exc("ValueError", "Custom error message"))
        /\ fpc = "done" <=> outcome.kind # "running"
        /\ fpc # "done" => ENABLED NextExc

\* C5 witness: the call as the file stands (risky_operation is not defined) has
\* ended, after the general handler and the finally clause printed.
C5_Witness ==
    /\ fpc = "done"
    /\ risky_operation.kind = "unbound"
    /\ out = <<"General exception: name 'risky_operation' is not defined", "Cleanup code">>
    /\ outcome = Ended(Exc("ValueError", "Custom error message"))

(***************************************************************************)
(* A with-block that uses custom_context_manager() (lines 371-378): the    *)
(* one of context_manager_examples (lines 380-387), or any other.          *)
(***************************************************************************)
BodyEnds ==
    {"completes", "ValueError", "CustomException", "StopIteration", "RuntimeError",
     "GeneratorExit", "KeyboardInterrupt"}

\* A body prints the value it received some number of times, then completes or raises.
Bodies == {[lines |-> n, ends |-> e] : n \in 0 .. MaxBody, e \in BodyEnds}

\* lines 386-387: the body of the with-block of context_manager_examples
ExampleBody == [lines |-> 1, ends |-> "completes"]

InitCtx ==
    /\ IdleModule /\ IdleCalls /\ IdleMatch
    /\ out = << >>
    /\ pending = NoException /\ outcome = [kind |-> "running"]
    /\ risky_operation = [kind |-> "unbound"]
    /\ as_value = "unbound"
    /\ \/ /\ caller = "context_manager_examples"
          /\ fpc = "open"
          /\ file_exists \in BOOLEAN
          /\ body = ExampleBody
       \/ /\ caller = "with"
          /\ fpc = "with"
          /\ file_exists = FALSE
          /\ body \in Bodies

CtxFrame == UNCHANGED <<modVars, callVars, matchVars, excVars, caller, file_exists, body>>

\* lines 383-384: with open("file.txt", "r") as f: content = f.read()
OpenFile ==
    /\ fpc = "open"
    /\ IF file_exists
       THEN fpc' = "with" /\ UNCHANGED outcome
       ELSE fpc' = "done" /\ outcome' = Ended(Exc("FileNotFoundError", "file.txt"))
    /\ UNCHANGED <<out, pending, as_value>>
    /\ CtxFrame

\* __enter__ runs the generator to its yield: lines 374-376
EnterContext ==
    /\ fpc = "with"
    /\ out' = Append(out, "Entering context")
    /\ as_value' = "context value"
    /\ fpc' = "body"
    /\ UNCHANGED <<pending, outcome>>
    /\ CtxFrame

RECURSIVE BodyLines(_, _)
BodyLines(n, v) == IF n = 0 THEN << >> ELSE <<"Context value: " \o v>> \o BodyLines(n - 1, v)

\* the body of the with-block: line 387, or what another caller wrote
RunBody ==
    /\ fpc = "body"
    /\ out' = out \o BodyLines(body.lines, as_value)
    /\ pending' = IF body.ends = "completes" THEN NoException ELSE Exc(body.ends, "body")
    /\ fpc' = "exit"
    /\ UNCHANGED <<outcome, as_value>>
    /\ CtxFrame

\* What leaves the generator when e is thrown in at its yield: the finally clause
\* runs and e goes on; a StopIteration leaving a generator becomes a RuntimeError.
GeneratorThrow(e) ==
    IF IsSubclass(e.cls, "StopIteration")
    THEN [cls |-> "RuntimeError", msg |-> "generator raised StopIteration", cause |-> e]
    ELSE e

\* What the with-statement raises after __exit__(e): __exit__ returns False for
\* the exception it threw in, and for the RuntimeError that wraps a StopIteration.
WithRaisesSwallowing(e) == NoException

WithRaises(e) ==
    LET thrown == GeneratorThrow(e)
    IN  IF thrown = e THEN e
        ELSE IF thrown.cls = "RuntimeError" /\ IsSubclass(e.cls, "StopIteration")
                /\ thrown.cause = e
        THEN e
        ELSE thrown

\* __exit__ resumes the generator (next, or throw with the body's exception):
\* lines 377-378
ExitContext ==
    /\ fpc = "exit"
    /\ out' = Append(out, "Exiting context")
    /\ LET leaves == IF pending = NoException THEN NoException ELSE WithRaises(pending)
       IN  /\ outcome' = IF leaves = NoException THEN Completed ELSE Ended(leaves)
           /\ pending' = leaves
    /\ fpc' = "done"
    /\ UNCHANGED as_value
    /\ CtxFrame

NextCtx == OpenFile \/ EnterContext \/ RunBody \/ ExitContext

SpecCtx == InitCtx /\ [][NextCtx]_vars

\* The with-block was entered.
Entered == fpc \in {"body", "exit"} \/ (fpc = "done" /\ out # << >>)

\* C6: for every with-block that uses custom_context_manager(), "Entering
\* context" is printed once before the body runs, the body receives "context
\* value", and "Exiting context" is printed exactly once after the body ends,
\* whether the body completes or raises; what the body raised still propagates.
C6_ContextManager ==
    /\ fpc = "body" => out = <<"Entering context">> /\ as_value = "context value"
    /\ fpc = "exit" =>
          out = <<"Entering context">> \o BodyLines(body.lines, "context value")
    /\ (fpc = "done" /\ Entered) =>
          /\ out = <<"Entering context">> \o BodyLines(body.lines, "context value")
                       \o <<"Exiting context">>
          /\ outcome = IF body.ends = "completes" THEN Completed
                       ELSE Ended(Exc(body.ends, "body"))
    /\ fpc # "done" => outcome.kind = "running" /\ ENABLED NextCtx

\* C6 witness: a body that printed and then raised has left the with-block.
C6_Witness ==
    /\ fpc = "done"
    /\ body = [lines |-> 2, ends |-> "StopIteration"]
    /\ outcome = Ended(Exc("StopIteration", "body"))
    /\ out[Len(out)] = "Exiting context"

====
